---- MODULE Spec2Model ----
(***************************************************************************)
(* Help Desk Pro: the client-side store, its persistence gateway and the   *)
(* dashboard of the three revisions kept in this repository:               *)
(*   revision "local"    src/script.js:1-330      localStorage only        *)
(*   revision "cloud"    src/script.js:332-1206   Apps-Script endpoint     *)
(*   revision "supabase" src/unnamed/part_001 (script) with                *)
(*                       src/unnamed/part_002 (gateway helpers)            *)
(* A behaviour runs one revision; Init chooses which.                      *)
(***************************************************************************)
EXTENDS Integers, Sequences, FiniteSets, TLC

\* ------------------------------------------------------------- bounds
MaxTickets == 1
MaxUsers == 1
MaxTime == 1

\* ------------------------------------------------------------- values
NULL == "null"
UNDEF == "undefined"

Revs == {"local", "cloud", "supabase"}

AdminEmail == "ransay@supermegavendas.com"
AdminEmailCaps == "Ransay@supermegavendas.com"
UserEmail == "user@email.com"
Emails == {AdminEmail, AdminEmailCaps, UserEmail}

\* String.prototype.toLowerCase on the e-mails of the model
ToLowerCase(s) == IF s = AdminEmailCaps THEN AdminEmail ELSE s

Passwords == {"admin", "abc"}

\* ids handleSubmitTicket can draw: '#' + a random four-digit number
TicketIds == {"#1000", "#1001"}

\* the <option> values of the status control
StatusOptions == {"Aberto", "Em atendimento", "Resolvido"}

UserFields == <<"id", "email", "password", "role", "username">>

MkUser(id, email, password, role, username) ==
    [id |-> id, email |-> email, password |-> password, role |-> role,
     username |-> username]

\* store.user = null
NoUser == MkUser(NULL, NULL, NULL, NULL, NULL)

MkTicket(id, status, created_by, byUser) ==
    [id |-> id, status |-> status, created_by |-> created_by,
     byUser |-> byUser, updated_at |-> 0]

\* ------------------------------------------------------------- helpers
RECURSIVE FindIndex(_, _, _)
\* Array.prototype.findIndex, 1-based; 0 stands for -1
FindIndex(s, P(_), i) ==
    IF i > Len(s) THEN 0
    ELSE IF P(s[i]) THEN i
    ELSE FindIndex(s, P, i + 1)

Filter(s, P(_)) == SelectSeq(s, P)

Count(s, P(_)) == Len(SelectSeq(s, P))

\* JSON.stringify of a user object: the defined fields, in order
RECURSIVE StringifyFrom(_, _)
StringifyFrom(u, i) ==
    IF i > Len(UserFields) THEN << >>
    ELSE IF u[UserFields[i]] = UNDEF THEN StringifyFrom(u, i + 1)
    ELSE << <<UserFields[i], u[UserFields[i]]>> >> \o StringifyFrom(u, i + 1)

Stringify(u) == StringifyFrom(u, 1)

\* JSON.parse of such a text: a field the text lacks reads as undefined
Parse(text) ==
    [f \in {UserFields[i] : i \in 1..Len(UserFields)} |->
        IF \E k \in 1..Len(text) : text[k][1] = f
        THEN text[CHOOSE k \in 1..Len(text) : text[k][1] = f][2]
        ELSE UNDEF]

\* localStorage.getItem of a key never set (or removed)
NoItem == << >>

\* ------------------------------------------------------------- state
VARIABLES
    rev,          \* the revision this behaviour runs
    user,         \* store.user
    tickets,      \* store.tickets
    users,        \* store.users
    view,         \* store.view
    visible,      \* the section showSection made visible
    btnDisabled,  \* the ticket form's submit button
    currentUser,  \* localStorage 'currentUser'
    lsTickets,    \* localStorage 'tickets' (revision local)
    dbWritten,    \* whether the cloud endpoint holds a document yet
    dbTickets,    \* the backend's tickets
    dbUsers,      \* the backend's users (cloud) or profiles (supabase)
    authUser,     \* the id of the Supabase auth session's user
    now,          \* the clock read by Date.now() and new Date()
    last,         \* the latest handler and how it ended
    syncStatus,   \* the state updateStatus last showed in the status indicator
    rendered,     \* the rows renderDashboard last put in the tickets table
    pending,      \* the loadData calls whose fetch has not resolved yet
    refresh,      \* the background refresh mechanism start-up established
    logs,         \* ErrorLogger.logs
    logged,       \* how many calls of ErrorLogger.log the behaviour has made
    submits,      \* of each handleSubmitTicket call that has not resumed yet, what it awaits
    modal,        \* whether the reset modal is open
    recoveryEmailTemp, \* the e-mail the external reset is for
    recoveries,   \* the recovery requests whose simulated e-mail is under way
    timers        \* how many intervals (cloud) or channels (supabase) refresh the page

store == <<user, tickets, users, view>>
dom == <<visible, btnDisabled>>
local == <<currentUser, lsTickets>>
backend == <<dbWritten, dbTickets, dbUsers, authUser>>
screen == <<syncStatus, rendered>>
\* what the handlers leave alone when each runs from start to end with no
\* other handler in between
sync == <<pending, refresh>>
logger == <<logs, logged>>
reset == <<modal, recoveryEmailTemp, recoveries>>
flight == <<sync, logger, submits, reset, timers>>
vars == <<rev, store, dom, local, backend, now, last, screen, flight>>

\* op: the handler; ok: whether it took its success path; raised: whether it
\* ended in an uncaught error or an unhandled promise rejection
Last(op, ok, raised) ==
    [op |-> op, ok |-> ok, raised |-> raised, a |-> NULL, b |-> NULL]

\* the same for a status update, with the ticket id and status it was given
LastUpdate(op, ok, raised, ticketId, newStatus) ==
    [op |-> op, ok |-> ok, raised |-> raised, a |-> ticketId, b |-> newStatus]

\* ------------------------------------------------------------- rendering
\* displayTickets of renderDashboard, revision local
DisplayTicketsLocal(u, ts) ==
    LET mine(t) == t.byUser = "Usuário"
    IN  IF u.role # "admin" THEN Filter(ts, mine) ELSE ts

\* displayTickets of renderDashboard, revision cloud
DisplayTicketsCloud(u, ts) ==
    LET own(t) == t.created_by = u.id
    IN  IF u.role # "admin" THEN Filter(ts, own) ELSE ts

\* displayTickets of renderDashboard, revision supabase
DisplayTicketsSupabase(u, ts) ==
    LET mine(t) == t.byUser = "Usuário"
    IN  IF u.role # "admin" THEN Filter(ts, mine) ELSE ts

\* displayTickets of the revision r
DisplayTickets(r, u, ts) ==
    IF r = "local" THEN DisplayTicketsLocal(u, ts)
    ELSE IF r = "cloud" THEN DisplayTicketsCloud(u, ts)
    ELSE DisplayTicketsSupabase(u, ts)

\* the rows renderDashboard appends to the tickets table: of each ticket
\* shown, the id and the status badge
TableRows(ts) == [i \in 1..Len(ts) |-> [id |-> ts[i].id, status |-> ts[i].status]]

\* the three counters of the admin dashboard: total, open, resolved
AdminStats(ts) ==
    LET open(t) == t.status = "Aberto"
        resolved(t) == t.status = "Resolvido"
    IN  <<Len(ts), Count(ts, open), Count(ts, resolved)>>

\* renderDashboard: the table and counters it puts in the DOM for a session
RenderDashboard(r, u, ts) ==
    [rows |-> DisplayTickets(r, u, ts),
     stats |-> IF u.role = "admin" THEN AdminStats(ts) ELSE << >>,
     controls |-> u.role = "admin"]

\* renderDashboard sends a visitor to the login section in revision cloud
RenderVisible(r, u, v) ==
    IF u = NoUser /\ r = "cloud" THEN "login" ELSE v

\* window.updateTicketStatus on store.tickets: the first ticket with the id
ApplyStatus(ts, ticketId, newStatus) ==
    LET hit(t) == t.id = ticketId
        ticketIndex == FindIndex(ts, hit, 1)
    IN  IF ticketIndex > 0
        THEN [ts EXCEPT ![ticketIndex].status = newStatus]
        ELSE ts

HasTicket(ts, ticketId) == \E i \in 1..Len(ts) : ts[i].id = ticketId

\* the status indicator createStatusUI builds: 'Iniciando...'; revision local
\* has none
StartStatus(r) == IF r = "local" THEN "none" ELSE "starting"

\* the refresh mechanism of a start-up that went well: setInterval after the
\* first loadData (cloud), the tickets channel (supabase)
Established(r) ==
    IF r = "cloud" THEN "polling" ELSE IF r = "supabase" THEN "push" ELSE "none"

\* ------------------------------------------------------------- Init
Init ==
    /\ rev \in Revs
    /\ user = NoUser
    /\ tickets = << >>
    /\ users = << >>
    /\ view = "home"
    /\ visible = "home"
    /\ btnDisabled = FALSE
    /\ currentUser = NoItem
    /\ lsTickets = << >>
    /\ dbWritten = FALSE
    /\ dbTickets = << >>
    /\ dbUsers = << >>
    /\ authUser = NULL
    /\ now = 1
    /\ last = Last("init", TRUE, FALSE)
    /\ syncStatus = StartStatus(rev)
    /\ rendered = << >>
    /\ pending = << >>
    /\ refresh = Established(rev)
    /\ logs = << >>
    /\ logged = 0
    /\ submits = << >>
    /\ modal = FALSE
    /\ recoveryEmailTemp = NULL
    /\ recoveries = << >>
    /\ timers = IF rev = "local" THEN 0 ELSE 1

\* ------------------------------------------------------------- navigation
\* the nav buttons: showSection('login'), showSection('ticket-form')
ShowSection(sectionId) ==
    /\ sectionId \in {"login", "ticket-form"}
    /\ visible' = sectionId
    /\ last' = Last("nav", TRUE, FALSE)
    /\ UNCHANGED <<rev, store, btnDisabled, local, backend, now, screen, flight>>

\* ------------------------------------------------------------- revision local
\* the session loginSuccess is given for each hard-coded account
LocalAccount(username, password) ==
    IF username = "admin" /\ password = "admin123"
    THEN MkUser(UNDEF, UNDEF, UNDEF, "admin", "Admin")
    ELSE IF username = "user" /\ password = "user123"
    THEN MkUser(UNDEF, UNDEF, UNDEF, "user", "Usuário")
    ELSE NoUser

\* a serialisation that loses the role
SessionTextNoRole(u) == Stringify([u EXCEPT !.role = UNDEF])

\* what loginSuccess writes to localStorage 'currentUser'
SessionText(u) == Stringify(u)

\* what checkAuthSession makes of localStorage 'currentUser'
RestoredUser(text) == IF text = NoItem THEN NoUser ELSE Parse(text)

HandleLoginLocal(username, password) ==
    /\ rev = "local"
    /\ LET u == LocalAccount(username, password) IN
       IF u # NoUser
       THEN /\ user' = u
            /\ currentUser' = SessionText(u)
            /\ rendered' = TableRows(DisplayTickets(rev, u, tickets))
            /\ visible' = "dashboard"
            /\ last' = Last("login", TRUE, FALSE)
       ELSE /\ last' = Last("login", FALSE, FALSE)
            /\ UNCHANGED <<user, currentUser, visible, rendered>>
    /\ UNCHANGED <<rev, tickets, users, view, btnDisabled,
                   lsTickets, backend, now, syncStatus, flight>>

\* handleLogout of revisions local and cloud
HandleLogout ==
    /\ rev \in {"local", "cloud"}
    /\ user' = NoUser
    /\ currentUser' = NoItem
    /\ visible' = "home"
    /\ last' = Last("logout", TRUE, FALSE)
    /\ UNCHANGED <<rev, tickets, users, view, btnDisabled,
                   lsTickets, backend, now, screen, flight>>

\* handleSubmitTicket up to setTimeout: the button is disabled
HandleSubmitTicketLocal ==
    /\ rev = "local"
    /\ ~btnDisabled
    /\ Len(tickets) < MaxTickets
    /\ btnDisabled' = TRUE
    /\ submits' = Append(submits, "timer")
    /\ last' = Last("submitting", TRUE, FALSE)
    /\ UNCHANGED <<rev, store, visible, local, backend, now, screen,
                   sync, logger, reset, timers>>

\* the setTimeout callback of handleSubmitTicket, one second later
SubmitTimerLocal(id) ==
    /\ rev = "local"
    /\ Len(submits) > 0
    /\ submits' = Tail(submits)
    /\ LET formData == MkTicket(id, "Aberto", UNDEF,
                           IF user # NoUser THEN user.username ELSE "Visitante")
           ts == <<formData>> \o tickets
       IN  /\ tickets' = ts
           /\ lsTickets' = ts
           /\ btnDisabled' = FALSE
           /\ rendered' = IF user # NoUser THEN TableRows(DisplayTickets(rev, user, ts))
                          ELSE rendered
           /\ visible' = IF user # NoUser THEN "dashboard" ELSE "home"
           /\ last' = Last("submit", TRUE, FALSE)
    /\ UNCHANGED <<rev, user, users, view, currentUser, backend, now,
                   syncStatus, sync, logger, reset, timers>>

\* window.updateTicketStatus, revision local: saveTickets and re-render
UpdateTicketStatusLocal(ticketId, newStatus) ==
    /\ rev = "local"
    /\ IF HasTicket(tickets, ticketId)
       THEN /\ tickets' = ApplyStatus(tickets, ticketId, newStatus)
            /\ lsTickets' = tickets'
            /\ rendered' = IF user # NoUser THEN TableRows(DisplayTickets(rev, user, tickets'))
                           ELSE rendered
            /\ last' = LastUpdate("update", TRUE, FALSE, ticketId, newStatus)
       ELSE /\ last' = LastUpdate("update", FALSE, FALSE, ticketId, newStatus)
            /\ UNCHANGED <<tickets, lsTickets, rendered>>
    /\ UNCHANGED <<rev, user, users, view, visible, btnDisabled,
                   currentUser, backend, now, syncStatus, flight>>

\* a fresh page load, revision local: the store is rebuilt from localStorage
ReloadLocal ==
    /\ rev = "local"
    /\ user' = RestoredUser(currentUser)
    /\ tickets' = lsTickets
    /\ users' = << >>
    /\ visible' = "home"
    /\ btnDisabled' = FALSE
    /\ rendered' = << >>
    /\ submits' = << >>
    /\ last' = Last("reload", TRUE, FALSE)
    /\ UNCHANGED <<rev, view, local, backend, now, syncStatus,
                   sync, logger, reset, timers>>

NextLocal ==
    \/ \E username \in {"admin", "user"}, password \in {"admin123", "user123"} :
           HandleLoginLocal(username, password)
    \/ HandleSubmitTicketLocal
    \/ \E id \in TicketIds : SubmitTimerLocal(id)
    \/ \E id \in TicketIds, st \in StatusOptions : UpdateTicketStatusLocal(id, st)
    \/ ReloadLocal

\* ------------------------------------------------------------- revision cloud
\* how a request to the endpoint ends: the write is stored, the server
\* answers with an error status, or fetch itself throws
NetOutcomes == {"accepted", "rejected", "unreachable"}

\* saveDB's return value: false only when fetch throws
SaveDB(net) == net # "unreachable"

\* persistStore: the endpoint keeps the posted document when it accepts it
PersistStore(net, ts, us) ==
    IF net = "accepted"
    THEN /\ dbTickets' = ts
         /\ dbUsers' = us
         /\ dbWritten' = TRUE
    ELSE UNCHANGED <<dbTickets, dbUsers, dbWritten>>

\* the admin user loadData adds on its error path
FallbackAdmin == MkUser("u_ransay", AdminEmail, "admin", "admin", "Ransay (Gestor)")

HasAdminUser(us) == \E i \in 1..Len(us) : ToLowerCase(us[i].email) = AdminEmail

\* loadData, revision cloud; fetched tells whether fetchDB returned a document
LoadDataCloud(fetched, net) ==
    /\ rev = "cloud"
    /\ IF fetched /\ dbWritten
       THEN /\ tickets' = dbTickets
            /\ users' = dbUsers
            /\ syncStatus' = "connected"
            /\ last' = Last("load", TRUE, FALSE)
            /\ UNCHANGED <<dbTickets, dbUsers, dbWritten>>
       ELSE /\ last' = Last("load", FALSE, FALSE)
            /\ syncStatus' = "error"
            /\ UNCHANGED tickets
            /\ IF ~HasAdminUser(users)
               THEN /\ users' = Append(users, FallbackAdmin)
                    /\ PersistStore(net, tickets, users')
               ELSE UNCHANGED <<users, dbTickets, dbUsers, dbWritten>>
    /\ UNCHANGED <<rev, user, view, visible, btnDisabled, local, authUser, now,
                   rendered, flight>>

\* the first user handleLogin finds for the e-mail and password, or NoUser
FindLogin(us, email, password) ==
    LET match(u) == /\ ToLowerCase(u.email) = ToLowerCase(email)
                    /\ u.password = password
        i == FindIndex(us, match, 1)
    IN  IF i > 0 THEN us[i] ELSE NoUser

\* handleLogin and loginSuccess, revision cloud
HandleLoginCloud(email, password) ==
    /\ rev = "cloud"
    /\ LET u == FindLogin(users, email, password) IN
       IF u # NoUser
       THEN /\ user' = u
            /\ currentUser' = SessionText(u)
            /\ visible' = "dashboard"
            /\ rendered' = TableRows(DisplayTickets(rev, u, tickets))
            /\ last' = Last("login", TRUE, FALSE)
       ELSE /\ last' = Last("login", FALSE, FALSE)
            /\ UNCHANGED <<user, currentUser, visible, rendered>>
    /\ UNCHANGED <<rev, tickets, users, view, btnDisabled,
                   lsTickets, backend, now, syncStatus, flight>>

\* how many of the users handleSignUpSubmit has registered: those that are
\* not the admin user of loadData's error path
Registered(us) == Cardinality({i \in 1..Len(us) : us[i].id # FallbackAdmin.id})

\* handleSignUpSubmit: the new user is pushed, then the store is persisted
HandleSignUpSubmit(email, password, net) ==
    /\ rev = "cloud"
    /\ IF \E i \in 1..Len(users) : users[i].email = email
       THEN /\ last' = Last("signup", FALSE, FALSE)
            /\ UNCHANGED <<users, now, dbTickets, dbUsers, dbWritten>>
       ELSE /\ Registered(users) < MaxUsers
            /\ now <= MaxTime
            /\ now' = now + 1
            /\ users' = Append(users,
                   MkUser("u" \o ToString(now), email, password, "user", UNDEF))
            /\ PersistStore(net, tickets, users')
            /\ last' = Last("signup", SaveDB(net), FALSE)
    /\ UNCHANGED <<rev, user, tickets, view, dom, local, authUser, screen, flight>>

\* handleSubmitTicket, revision cloud
HandleSubmitTicketCloud(id, net) ==
    /\ rev = "cloud"
    /\ ~btnDisabled
    /\ Len(tickets) < MaxTickets
    /\ LET ticket == MkTicket(id, "Aberto",
                         IF user # NoUser THEN user.id ELSE NULL, UNDEF)
       IN  /\ tickets' = <<ticket>> \o tickets
           /\ PersistStore(net, tickets', users)
           /\ last' = Last("submit", SaveDB(net), FALSE)
    /\ visible' = IF ~SaveDB(net) THEN visible
                  ELSE IF user # NoUser THEN "dashboard" ELSE "home"
    /\ rendered' = IF SaveDB(net) /\ user # NoUser
                   THEN TableRows(DisplayTickets(rev, user, tickets'))
                   ELSE rendered
    /\ UNCHANGED <<rev, user, users, view, btnDisabled, local,
                   authUser, now, syncStatus, flight>>

\* window.updateTicketStatus, revision cloud: persistStore is not awaited
UpdateTicketStatusCloud(ticketId, newStatus, net) ==
    /\ rev = "cloud"
    /\ IF HasTicket(tickets, ticketId)
       THEN /\ tickets' = ApplyStatus(tickets, ticketId, newStatus)
            /\ PersistStore(net, tickets', users)
            /\ visible' = RenderVisible(rev, user, visible)
            /\ rendered' = IF user # NoUser THEN TableRows(DisplayTickets(rev, user, tickets'))
                           ELSE rendered
            /\ last' = LastUpdate("update", TRUE, FALSE, ticketId, newStatus)
       ELSE /\ last' = LastUpdate("update", FALSE, FALSE, ticketId, newStatus)
            /\ UNCHANGED <<tickets, visible, rendered, dbTickets, dbUsers, dbWritten>>
    /\ UNCHANGED <<rev, user, users, view, btnDisabled, local,
                   authUser, now, syncStatus, flight>>

\* a fresh page load, revision cloud: the session comes from localStorage,
\* tickets and users wait for loadData
ReloadCloud ==
    /\ rev = "cloud"
    /\ user' = RestoredUser(currentUser)
    /\ tickets' = << >>
    /\ users' = << >>
    /\ visible' = "home"
    /\ btnDisabled' = FALSE
    /\ syncStatus' = StartStatus(rev)
    /\ rendered' = << >>
    /\ pending' = << >>
    /\ submits' = << >>
    /\ last' = Last("reload", TRUE, FALSE)
    /\ logs' = << >>
    /\ logged' = 0
    /\ UNCHANGED <<rev, view, local, backend, now, refresh, timers>>
    /\ modal' = FALSE
    /\ recoveryEmailTemp' = NULL
    /\ recoveries' = << >>

NextCloud ==
    \/ \E fetched \in BOOLEAN, net \in NetOutcomes : LoadDataCloud(fetched, net)
    \/ \E email \in {AdminEmail, UserEmail}, password \in Passwords :
           HandleLoginCloud(email, password)
    \/ \E email \in {AdminEmailCaps, UserEmail}, net \in NetOutcomes :
           HandleSignUpSubmit(email, "abc", net)
    \/ \E id \in TicketIds, net \in NetOutcomes : HandleSubmitTicketCloud(id, net)
    \/ \E id \in TicketIds, st \in StatusOptions, net \in NetOutcomes :
           UpdateTicketStatusCloud(id, st, net)
    \/ ReloadCloud

\* ------------------------------------------------------------- revision supabase
\* ids the backend gives its rows
RowIds == {"t1", "t2"}

\* .from('profiles').select('*').eq('id', id).single()
ProfileOf(profiles, id) ==
    IF \E i \in 1..Len(profiles) : profiles[i].id = id
    THEN profiles[CHOOSE i \in 1..Len(profiles) : profiles[i].id = id]
    ELSE NoUser

\* the profile of the account signInWithPassword finds for the e-mail: the
\* auth service keys its accounts by the e-mail in lower case, the profile
\* row keeps the e-mail as signUp was given it
ProfileByEmail(profiles, email) ==
    LET same(i) == ToLowerCase(profiles[i].email) = ToLowerCase(email)
    IN  IF \E i \in 1..Len(profiles) : same(i)
        THEN profiles[CHOOSE i \in 1..Len(profiles) : same(i)]
        ELSE NoUser

\* a sign-in that hands the profile over as stored
PromoteNever(profile) == profile

\* "Auto-promote specific admin email" of signIn and getCurrentUser
Promote(profile) ==
    IF profile.email = AdminEmail /\ profile.role # "admin"
    THEN [profile EXCEPT !.role = "admin"]
    ELSE profile

\* signUp: an auth account and its profile, role 'user'
SignUp(email, accepted) ==
    /\ rev = "supabase"
    /\ Len(dbUsers) < MaxUsers
    /\ IF accepted /\ ProfileByEmail(dbUsers, email) = NoUser
       THEN /\ dbUsers' = Append(dbUsers,
                   MkUser("p" \o ToString(Len(dbUsers) + 1), email, UNDEF, "user", UNDEF))
            /\ last' = Last("signup", TRUE, FALSE)
       ELSE /\ last' = Last("signup", FALSE, FALSE)
            /\ UNCHANGED dbUsers
    /\ UNCHANGED <<rev, store, dom, local, dbWritten, dbTickets, authUser, now,
                   screen, flight>>

\* getTickets: no session gives an empty list; a profile that is not admin
\* gives the caller's rows; otherwise every row
GetTickets(auth, profiles, rows) ==
    IF auth = NULL THEN << >>
    ELSE LET profile == ProfileOf(profiles, auth)
             own(t) == t.created_by = auth
         IN  IF profile # NoUser /\ profile.role # "admin"
             THEN Filter(rows, own)
             ELSE rows

\* the seed loadData leaves in store.users when it is empty
SeedUsers ==
    << MkUser("u1", AdminEmail, "admin123", "admin", "Ransay (Gestor)"),
       MkUser("u2", "user", "user123", "user", "Usuário"),
       MkUser("u3", UserEmail, "user123", "user", "Usuário Padrão") >>

\* how the three calls of one getTickets come out. "rows": each is answered;
\* "unreachable": the request of auth.getUser fails, which leaves its
\* data.user null; "noprofile": the profile query fails; "failed": the
\* tickets query fails
FetchOutcomes == {"rows", "unreachable", "noprofile", "failed"}

\* what getTickets returns
GetTicketsResult(fetch, auth, profiles, rows) ==
    IF auth = NULL \/ fetch = "unreachable" THEN [success |-> TRUE, tickets |-> << >>]
    ELSE IF fetch = "failed" THEN [success |-> FALSE, tickets |-> << >>]
    ELSE IF fetch = "noprofile" THEN [success |-> TRUE, tickets |-> rows]
    ELSE [success |-> TRUE, tickets |-> GetTickets(auth, profiles, rows)]

\* a loadData that keeps the tickets it has once it holds some
LoadedTicketsOnce(result, ts) ==
    IF result.success /\ Len(ts) = 0 THEN result.tickets ELSE ts

\* store.tickets and store.users after loadData, revision supabase; result
\* is what getTickets returned
LoadedTickets(result, ts) == IF result.success THEN result.tickets ELSE ts

\* the state loadData leaves in the status indicator
LoadedStatus(result) == IF result.success THEN "connected" ELSE "error"

LoadedUsers(us) == IF Len(us) = 0 THEN SeedUsers ELSE us

\* loadData on its own: the real-time callback
LoadDataSupabase(fetch) ==
    /\ rev = "supabase"
    /\ LET result == GetTicketsResult(fetch, authUser, dbUsers, dbTickets)
       IN  /\ tickets' = LoadedTickets(result, tickets)
           /\ syncStatus' = LoadedStatus(result)
           /\ last' = LastUpdate("load", result.success, FALSE, fetch, NULL)
    /\ users' = LoadedUsers(users)
    /\ UNCHANGED <<rev, user, view, dom, local, backend, now, rendered, flight>>

\* handleLogin with signIn and loginSuccess. outcome: "denied" the sign-in
\* fails; "noprofile" the sign-in succeeds and the profile query fails; "ok";
\* "stale": as ok, the role update of the promotion not reaching the table
SignInOutcomes == {"denied", "noprofile", "ok", "stale"}

HandleLoginSupabase(email, outcome, fetch) ==
    /\ rev = "supabase"
    /\ LET stored == ProfileByEmail(dbUsers, email)
           profile == Promote(stored)
       IN  IF outcome = "denied" \/ stored = NoUser
           THEN /\ last' = Last("login", FALSE, FALSE)
                /\ UNCHANGED <<user, tickets, users, visible, authUser, dbUsers,
                               syncStatus>>
           ELSE IF outcome = "noprofile"
           THEN /\ authUser' = stored.id
                /\ last' = Last("login", FALSE, FALSE)
                /\ UNCHANGED <<user, tickets, users, visible, dbUsers, syncStatus>>
           ELSE /\ authUser' = stored.id
                /\ dbUsers' = IF outcome = "ok"
                              THEN [i \in 1..Len(dbUsers) |->
                                      IF dbUsers[i].id = stored.id THEN profile
                                      ELSE dbUsers[i]]
                              ELSE dbUsers
                /\ user' = profile
                /\ visible' = "dashboard"
                /\ LET result == GetTicketsResult(fetch, authUser', dbUsers', dbTickets)
                   IN  /\ tickets' = LoadedTickets(result, tickets)
                       /\ syncStatus' = LoadedStatus(result)
                /\ users' = LoadedUsers(users)
                /\ last' = Last("login", TRUE, FALSE)
    /\ UNCHANGED <<rev, view, btnDisabled, local, dbWritten, dbTickets, now,
                   rendered, flight>>

\* handleLogout: signOut's result is not looked at
HandleLogoutSupabase(signedOut) ==
    /\ rev = "supabase"
    /\ authUser' = IF signedOut THEN NULL ELSE authUser
    /\ user' = NoUser
    /\ visible' = "home"
    /\ last' = Last("logout", TRUE, FALSE)
    /\ UNCHANGED <<rev, tickets, users, view, btnDisabled, local, dbWritten,
                   dbTickets, dbUsers, now, screen, flight>>

\* the row createTicket inserts: the creator is the auth session's user
NewRow == MkTicket("t" \o ToString(Len(dbTickets) + 1), "open", authUser, UNDEF)

\* handleSubmitTicket with createTicket, and loadData when a session is held
HandleSubmitTicketSupabase(inserted, fetch) ==
    /\ rev = "supabase"
    /\ ~btnDisabled
    /\ Len(dbTickets) < MaxTickets
    /\ IF inserted
       THEN /\ dbTickets' = <<NewRow>> \o dbTickets
            /\ IF user # NoUser
               THEN /\ LET result == GetTicketsResult(fetch, authUser, dbUsers, dbTickets')
                       IN  /\ tickets' = LoadedTickets(result, tickets)
                           /\ syncStatus' = LoadedStatus(result)
                    /\ users' = LoadedUsers(users)
                    /\ visible' = "dashboard"
               ELSE /\ visible' = "home"
                    /\ UNCHANGED <<tickets, users, syncStatus>>
            /\ last' = Last("submit", TRUE, FALSE)
       ELSE /\ last' = Last("submit", FALSE, FALSE)
            /\ UNCHANGED <<dbTickets, tickets, users, visible, syncStatus>>
    /\ UNCHANGED <<rev, user, view, btnDisabled, local, dbWritten, dbUsers,
                   authUser, now, rendered, flight>>

\* window.updateTicketStatus, revision supabase: persistStore calls saveDB,
\* which this revision no longer defines, so its promise is rejected
UpdateTicketStatusSupabase(ticketId, newStatus) ==
    /\ rev = "supabase"
    /\ IF HasTicket(tickets, ticketId)
       THEN /\ tickets' = ApplyStatus(tickets, ticketId, newStatus)
            /\ rendered' = IF user # NoUser THEN TableRows(DisplayTickets(rev, user, tickets'))
                           ELSE rendered
            /\ last' = LastUpdate("update", TRUE, TRUE, ticketId, newStatus)
       ELSE /\ last' = LastUpdate("update", FALSE, FALSE, ticketId, newStatus)
            /\ UNCHANGED <<tickets, rendered>>
    /\ UNCHANGED <<rev, user, users, view, dom, local, backend, now,
                   syncStatus, flight>>

\* updateTicketStatus of the gateway: the row's status and updated_at
GatewayUpdateTicketStatus(ticketId, newStatus, accepted, tick) ==
    /\ rev = "supabase"
    /\ now + tick <= MaxTime + 1
    /\ now' = now + tick
    /\ IF accepted /\ HasTicket(dbTickets, ticketId)
       THEN /\ dbTickets' = [i \in 1..Len(dbTickets) |->
                   IF dbTickets[i].id = ticketId
                   THEN [dbTickets[i] EXCEPT !.status = newStatus, !.updated_at = now]
                   ELSE dbTickets[i]]
            /\ last' = LastUpdate("gatewayUpdate", TRUE, FALSE, ticketId, newStatus)
       ELSE /\ last' = LastUpdate("gatewayUpdate", FALSE, FALSE, ticketId, newStatus)
            /\ UNCHANGED dbTickets
    /\ UNCHANGED <<rev, store, dom, local, dbWritten, dbUsers, authUser,
                   screen, flight>>

\* a getCurrentUser that returns the profile as stored
GetCurrentUserStored(answered) ==
    IF authUser = NULL \/ ~answered THEN NoUser
    ELSE ProfileOf(dbUsers, authUser)

\* getCurrentUser: the session's profile, promoted; null when there is no
\* session or a query fails
GetCurrentUser(answered) ==
    IF authUser = NULL \/ ~answered THEN NoUser
    ELSE Promote(ProfileOf(dbUsers, authUser))

\* a fresh page load, revision supabase: init runs startRealtimeSync (the
\* first loadData) and checkAuthSession
ReloadSupabase(answered, fetch) ==
    /\ rev = "supabase"
    /\ user' = GetCurrentUser(answered)
    /\ LET result == GetTicketsResult(fetch, authUser, dbUsers, dbTickets)
       IN  /\ tickets' = LoadedTickets(result, << >>)
           /\ syncStatus' = LoadedStatus(result)
    /\ users' = SeedUsers
    /\ visible' = "home"
    /\ btnDisabled' = FALSE
    /\ rendered' = << >>
    /\ pending' = << >>
    /\ submits' = << >>
    /\ last' = Last("reload", TRUE, FALSE)
    /\ logs' = << >>
    /\ logged' = 0
    /\ UNCHANGED <<rev, view, local, backend, now, refresh, timers>>
    /\ modal' = FALSE
    /\ recoveryEmailTemp' = NULL
    /\ recoveries' = << >>

NextSupabase ==
    \/ \E email \in {AdminEmail, UserEmail}, accepted \in BOOLEAN : SignUp(email, accepted)
    \/ \E fetch \in FetchOutcomes : LoadDataSupabase(fetch)
    \/ \E email \in {AdminEmail, UserEmail}, outcome \in SignInOutcomes, fetch \in FetchOutcomes :
           HandleLoginSupabase(email, outcome, fetch)
    \/ \E signedOut \in BOOLEAN : HandleLogoutSupabase(signedOut)
    \/ \E inserted \in BOOLEAN, fetch \in FetchOutcomes :
           HandleSubmitTicketSupabase(inserted, fetch)
    \/ \E id \in RowIds, st \in StatusOptions : UpdateTicketStatusSupabase(id, st)
    \/ \E id \in RowIds, st \in StatusOptions, accepted \in BOOLEAN, tick \in {0, 1} :
           GatewayUpdateTicketStatus(id, st, accepted, tick)
    \/ \E answered \in BOOLEAN, fetch \in FetchOutcomes : ReloadSupabase(answered, fetch)

\* ------------------------------------------------------------- refreshing
\* how many loadData calls can be under way at once
MaxInflight == 2

\* a loadData call that waits for its fetch; then is what the caller does
\* once the call has ended: "refresh" setInterval or subscribeToTickets
\* (startPolling, startRealtimeSync), "dashboard" showSection('dashboard')
\* (handleSubmitTicket), "nothing"
Call(silent, then) ==
    [silent |-> silent, then |-> then, state |-> "sent",
     result |-> [success |-> FALSE, tickets |-> << >>], users |-> << >>]

\* a sequence without its i-th element
Remove(calls, i) == SubSeq(calls, 1, i - 1) \o SubSeq(calls, i + 1, Len(calls))

\* the collections the other clients of the backend leave in it
BackendTickets(r) ==
    IF r = "cloud"
    THEN {<< >>, <<MkTicket("#1000", "Aberto", "u1", UNDEF)>>,
          <<MkTicket("#1000", "Resolvido", "u1", UNDEF)>>}
    ELSE {<< >>, <<MkTicket("t1", "open", "p1", UNDEF)>>,
          <<MkTicket("t1", "resolved", "p1", UNDEF)>>}

\* the profile of the session the browser may hold
SessionProfile == MkUser("p1", UserEmail, UNDEF, "user", UNDEF)

\* a page of the hosted revisions before init runs: nothing in memory, the
\* backend as the clients before left it, a session held or not
InitSync ==
    /\ rev \in {"cloud", "supabase"}
    /\ user = NoUser
    /\ tickets = << >>
    /\ users = << >>
    /\ view = "home"
    /\ visible = "home"
    /\ btnDisabled = FALSE
    /\ currentUser = NoItem
    /\ lsTickets = << >>
    /\ dbTickets \in BackendTickets(rev)
    /\ dbWritten = (rev = "cloud" /\ dbTickets # << >>)
    /\ dbUsers = IF rev = "supabase" THEN <<SessionProfile>>
                 ELSE IF dbWritten THEN <<FallbackAdmin>> ELSE << >>
    /\ authUser \in IF rev = "supabase" THEN {NULL, "p1"} ELSE {NULL}
    /\ now = 1
    /\ last = Last("init", TRUE, FALSE)
    /\ syncStatus = "starting"
    /\ rendered = << >>
    /\ pending = << >>
    /\ refresh = "unstarted"
    /\ logs = << >>
    /\ logged = 0
    /\ submits = << >>
    /\ modal = FALSE
    /\ recoveryEmailTemp = NULL
    /\ recoveries = << >>
    /\ timers = 0

\* init: startPolling, or startRealtimeSync when initSupabase returned true,
\* up to the fetch of the first loadData; then checkAuthSession
StartSync(ready, answered) ==
    /\ rev \in {"cloud", "supabase"}
    /\ refresh = "unstarted"
    /\ IF rev = "cloud" \/ ready
       THEN /\ refresh' = "loading"
            /\ pending' = Append(pending, Call(FALSE, "refresh"))
            /\ syncStatus' = "syncing"
       ELSE /\ refresh' = "none"
            /\ UNCHANGED <<pending, syncStatus>>
    /\ user' = IF rev = "cloud" THEN RestoredUser(currentUser)
               ELSE IF ready THEN GetCurrentUser(answered) ELSE NoUser
    /\ last' = Last("start", rev = "cloud" \/ ready, FALSE)
    /\ UNCHANGED <<rev, tickets, users, view, dom, local, backend, now, rendered,
                   logger, submits, reset, timers>>

\* a tick of the interval startPolling set: loadData(true) up to its fetch
PollTick ==
    /\ rev = "cloud"
    /\ refresh = "polling"
    /\ Len(pending) < MaxInflight
    /\ pending' = Append(pending, Call(TRUE, "nothing"))
    /\ last' = Last("tick", TRUE, FALSE)
    /\ UNCHANGED <<rev, store, dom, local, backend, now, screen, refresh, logger,
                   submits, reset, timers>>

\* another client changes the backend's tickets; with the channel of
\* subscribeToTickets open, its callback runs loadData(true) up to the fetch
OtherClientWrites(ts) ==
    /\ rev \in {"cloud", "supabase"}
    /\ ts # dbTickets
    /\ dbTickets' = ts
    /\ dbWritten' = (rev = "cloud")
    /\ dbUsers' = IF rev = "cloud" /\ ~dbWritten THEN <<FallbackAdmin>> ELSE dbUsers
    /\ IF rev = "supabase" /\ refresh = "push"
       THEN /\ Len(pending) < MaxInflight
            /\ pending' = Append(pending, Call(TRUE, "nothing"))
       ELSE UNCHANGED pending
    /\ last' = Last("written", TRUE, FALSE)
    /\ UNCHANGED <<rev, store, dom, local, authUser, now, screen, refresh, logger,
                   submits, reset, timers>>

\* the backend answers the fetch of a call, or the fetch fails: fetchDB
\* (cloud, fetch "rows" or "failed"), getTickets (supabase)
AnswerLoad(i, fetch) ==
    /\ rev \in {"cloud", "supabase"}
    /\ i \in 1..Len(pending)
    /\ pending[i].state = "sent"
    /\ rev = "cloud" => fetch \in {"rows", "failed"}
    /\ LET result == IF rev = "cloud"
                     THEN [success |-> fetch = "rows" /\ dbWritten, tickets |-> dbTickets]
                     ELSE GetTicketsResult(fetch, authUser, dbUsers, dbTickets)
       IN  pending' = [pending EXCEPT ![i] =
               [@ EXCEPT !.state = "answered", !.result = result,
                         !.users = IF rev = "cloud" THEN dbUsers ELSE << >>]]
    /\ last' = LastUpdate("answer", TRUE, FALSE, fetch, NULL)
    /\ UNCHANGED <<rev, store, dom, local, backend, now, screen, refresh, logger,
                   submits, reset, timers>>

\* loadData from the answer of its fetch to its end, and what its caller
\* does next
ResolveLoad(i, net) ==
    /\ rev \in {"cloud", "supabase"}
    /\ i \in 1..Len(pending)
    /\ pending[i].state = "answered"
    /\ LET call == pending[i]
       IN  /\ tickets' = LoadedTickets(call.result, tickets)
           /\ syncStatus' = LoadedStatus(call.result)
           /\ refresh' = IF call.then = "refresh" THEN Established(rev) ELSE refresh
           /\ timers' = IF call.then = "refresh" THEN timers + 1 ELSE timers
           /\ visible' = IF call.then = "dashboard" THEN "dashboard" ELSE visible
           /\ last' = LastUpdate("load", call.result.success, FALSE, call.then, NULL)
           /\ IF rev = "supabase"
              THEN /\ users' = LoadedUsers(users)
                   /\ UNCHANGED <<dbTickets, dbUsers, dbWritten>>
              ELSE IF call.result.success
              THEN /\ users' = call.users
                   /\ UNCHANGED <<dbTickets, dbUsers, dbWritten>>
              ELSE IF ~HasAdminUser(users)
              THEN /\ users' = Append(users, FallbackAdmin)
                   /\ PersistStore(net, tickets, users')
              ELSE UNCHANGED <<users, dbTickets, dbUsers, dbWritten>>
    /\ pending' = Remove(pending, i)
    /\ UNCHANGED <<rev, user, view, btnDisabled, local, authUser, now, rendered,
                   logger, submits, reset>>

NextSync ==
    \/ \E ready \in BOOLEAN, answered \in BOOLEAN : StartSync(ready, answered)
    \/ PollTick
    \/ \E ts \in BackendTickets(rev) : OtherClientWrites(ts)
    \/ \E i \in 1..MaxInflight, fetch \in FetchOutcomes : AnswerLoad(i, fetch)
    \/ \E i \in 1..MaxInflight, net \in NetOutcomes : ResolveLoad(i, net)

SpecSync == InitSync /\ [][NextSync]_vars

\* a call of startPolling or startRealtimeSync, up to the fetch of its
\* loadData: it returns at once when pollInterval or ticketSubscription is
\* set
StartRefresh ==
    /\ rev \in {"cloud", "supabase"}
    /\ refresh # "unstarted"
    /\ timers = 0
    /\ Len(pending) < MaxInflight
    /\ pending' = Append(pending, Call(FALSE, "refresh"))
    /\ syncStatus' = "syncing"
    /\ last' = Last("startRefresh", TRUE, FALSE)
    /\ UNCHANGED <<rev, store, dom, local, backend, now, rendered, refresh, logger,
                   submits, reset, timers>>

\* start-up and further calls of startPolling and startRealtimeSync
NextStart ==
    \/ \E ready \in BOOLEAN, answered \in BOOLEAN : StartSync(ready, answered)
    \/ StartRefresh
    \/ PollTick
    \/ \E ts \in BackendTickets(rev) : OtherClientWrites(ts)
    \/ \E i \in 1..MaxInflight, fetch \in FetchOutcomes : AnswerLoad(i, fetch)
    \/ \E i \in 1..MaxInflight, net \in NetOutcomes : ResolveLoad(i, net)

SpecStart == InitSync /\ [][NextStart]_vars

\* ------------------------------------------------------------- submitting
\* handleSubmitTicket up to await persistStore(), revision cloud, and the
\* endpoint's handling of the POST
BeginSubmitCloud(id, net) ==
    /\ rev = "cloud"
    /\ ~btnDisabled
    /\ Len(tickets) < MaxTickets
    /\ btnDisabled' = TRUE
    /\ LET ticket == MkTicket(id, "Aberto",
                         IF user # NoUser THEN user.id ELSE NULL, UNDEF)
       IN  /\ tickets' = <<ticket>> \o tickets
           /\ PersistStore(net, tickets', users)
    /\ submits' = Append(submits, net)
    /\ last' = Last("submitting", TRUE, FALSE)
    /\ UNCHANGED <<rev, user, users, view, visible, local, authUser, now, screen,
                   sync, logger, reset, timers>>

\* a handleSubmitTicket that leaves the control disabled when the call failed
EndSubmitFailedKeepsDisabled(net) == ~SaveDB(net)

\* btn.disabled after the awaited call of handleSubmitTicket has resolved
EndSubmitDisabled(net) == FALSE

\* handleSubmitTicket after await persistStore(), revision cloud
EndSubmitCloud ==
    /\ rev = "cloud"
    /\ Len(submits) > 0
    /\ LET net == Head(submits)
       IN  /\ btnDisabled' = EndSubmitDisabled(net)
           /\ visible' = IF ~SaveDB(net) THEN visible
                         ELSE IF user # NoUser THEN "dashboard" ELSE "home"
           /\ rendered' = IF SaveDB(net) /\ user # NoUser
                          THEN TableRows(DisplayTickets(rev, user, tickets))
                          ELSE rendered
           /\ last' = Last("submit", SaveDB(net), FALSE)
    /\ submits' = Tail(submits)
    /\ UNCHANGED <<rev, store, local, backend, now, syncStatus, sync, logger,
                   reset, timers>>

\* handleSubmitTicket up to await createTicket(formData), revision
\* supabase, and the insert of the row when the backend takes it
BeginSubmitSupabase(inserted) ==
    /\ rev = "supabase"
    /\ ~btnDisabled
    /\ Len(dbTickets) < MaxTickets
    /\ btnDisabled' = TRUE
    /\ dbTickets' = IF inserted THEN <<NewRow>> \o dbTickets ELSE dbTickets
    /\ submits' = Append(submits, IF inserted THEN "accepted" ELSE "unreachable")
    /\ last' = Last("submitting", TRUE, FALSE)
    /\ UNCHANGED <<rev, store, visible, local, dbWritten, dbUsers, authUser, now,
                   screen, sync, logger, reset, timers>>

\* handleSubmitTicket after await createTicket(formData): with a session it
\* goes on to await loadData() and then shows the dashboard
EndSubmitSupabase ==
    /\ rev = "supabase"
    /\ Len(submits) > 0
    /\ LET net == Head(submits)
           reload == SaveDB(net) /\ user # NoUser
       IN  /\ btnDisabled' = EndSubmitDisabled(net)
           /\ reload => Len(pending) < MaxInflight
           /\ pending' = IF reload THEN Append(pending, Call(FALSE, "dashboard"))
                         ELSE pending
           /\ syncStatus' = IF reload THEN "syncing" ELSE syncStatus
           /\ visible' = IF SaveDB(net) /\ user = NoUser THEN "home" ELSE visible
           /\ last' = Last(IF reload THEN "submitted" ELSE "submit", SaveDB(net), FALSE)
    /\ submits' = Tail(submits)
    /\ UNCHANGED <<rev, store, local, backend, now, rendered, refresh, logger,
                   reset, timers>>

\* the submission of tickets with its awaits, next to the handlers that
\* open and close sessions
NextSubmit ==
    \/ HandleLogout
    \/ \E username \in {"user"}, password \in {"user123"} :
           HandleLoginLocal(username, password)
    \/ HandleSubmitTicketLocal
    \/ \E id \in {"#1000"} : SubmitTimerLocal(id)
    \/ \E net \in NetOutcomes : HandleSignUpSubmit(UserEmail, "abc", net)
    \/ HandleLoginCloud(UserEmail, "abc")
    \/ \E net \in NetOutcomes : BeginSubmitCloud("#1000", net)
    \/ EndSubmitCloud
    \/ SignUp(UserEmail, TRUE)
    \/ \E fetch \in {"rows", "failed"} : HandleLoginSupabase(UserEmail, "ok", fetch)
    \/ HandleLogoutSupabase(TRUE)
    \/ \E inserted \in BOOLEAN : BeginSubmitSupabase(inserted)
    \/ EndSubmitSupabase
    \/ \E i \in 1..MaxInflight, fetch \in {"rows", "failed"} :
           rev = "supabase" /\ AnswerLoad(i, fetch)
    \/ \E i \in 1..MaxInflight : rev = "supabase" /\ ResolveLoad(i, "accepted")

SpecSubmit == Init /\ [][NextSubmit]_vars

\* the handlers of the cloud revision that post the whole store, with the
\* await of handleSubmitTicket, next to the interval's loadData calls, one
\* at a time
NextPersist ==
    \/ Len(pending) = 0 /\ PollTick
    \/ \E fetch \in {"rows", "failed"} : AnswerLoad(1, fetch)
    \/ \E net \in {"accepted", "unreachable"} : ResolveLoad(1, net)
    \/ \E id \in TicketIds, net \in NetOutcomes : BeginSubmitCloud(id, net)
    \/ EndSubmitCloud
    \/ \E net \in {"accepted", "unreachable"} :
           UpdateTicketStatusCloud("#1000", "Resolvido", net)

\* ------------------------------------------------------------- password reset
\* the shortest password the reset handlers take
minPassword == 3

\* how many recovery requests can have their simulated e-mail under way
MaxRecoveries == 2

\* what the password fields of the reset forms can hold
NewPasswords == {"", "ab", "abc", "abcd"}

\* what the e-mail fields of the reset forms can hold
ResetEmails == {AdminEmail, UserEmail, "admin", "nobody@email.com"}

\* the index of the first user with this e-mail, 0 when there is none
UserIndex(us, email) ==
    LET hit(u) == u.email = email
    IN  FindIndex(us, hit, 1)

\* the checks of handleResetSubmit in their order; "ok" when all pass
ResetCheck(us, targetEmail, newPass, confirmPass) ==
    IF newPass # confirmPass THEN "mismatch"
    ELSE IF newPass = "" \/ Len(newPass) < minPassword THEN "short"
    ELSE IF UserIndex(us, targetEmail) = 0 THEN "notfound"
    ELSE IF us[UserIndex(us, targetEmail)].password = newPass THEN "same"
    ELSE "ok"

\* the checks of handleExternalResetSubmit in their order
ExternalResetCheck(us, temp, newPass, confirmPass) ==
    IF temp = NULL THEN "expired"
    ELSE IF newPass # confirmPass THEN "mismatch"
    ELSE IF newPass = "" \/ Len(newPass) < minPassword THEN "short"
    ELSE IF UserIndex(us, temp) = 0 THEN "notfound"
    ELSE "ok"

\* whether the two password fields of a reset form hold the same text
Typed(newPass, confirmPass) == IF newPass = confirmPass THEN "match" ELSE "differ"

\* store.users[index].password = newPass
WithPassword(us, index, newPass) == [us EXCEPT ![index].password = newPass]

\* persistStore as the reset handlers call it, without await: the cloud
\* revision posts the store; in the supabase revision saveDB is not
\* defined and the call ends in a rejected promise
PersistReset(net, ts, us) ==
    IF rev = "cloud" THEN PersistStore(net, ts, us)
    ELSE UNCHANGED <<dbTickets, dbUsers, dbWritten>>

\* of a step of a reset handler, last tells: ok, whether updateUserPassword
\* ran (the password assigned, persistStore called); a, the check that
\* stopped it; b, Typed of its password fields
\* handlePasswordResetRequest and openResetModal
HandlePasswordResetRequest ==
    /\ rev \in {"cloud", "supabase"}
    /\ user # NoUser
    /\ modal' = TRUE
    /\ last' = Last("openReset", TRUE, FALSE)
    /\ UNCHANGED <<rev, store, dom, local, backend, now, screen, sync, logger,
                   submits, recoveryEmailTemp, recoveries, timers>>

\* closeResetModal
CloseResetModal ==
    /\ rev \in {"cloud", "supabase"}
    /\ modal
    /\ modal' = FALSE
    /\ last' = Last("closeReset", TRUE, FALSE)
    /\ UNCHANGED <<rev, store, dom, local, backend, now, screen, sync, logger,
                   submits, recoveryEmailTemp, recoveries, timers>>

\* handleResetSubmit and updateUserPassword; the form is in the reset
\* modal, whose "other user" option openResetModal shows to an admin only.
\* store.user.email is read first: with no session the handler ends there
\* in a TypeError
HandleResetSubmit(resetType, email, newPass, confirmPass, net) ==
    /\ rev \in {"cloud", "supabase"}
    /\ modal
    /\ resetType = "other" => user.role = "admin"
    /\ IF user = NoUser
       THEN /\ last' = LastUpdate("reset", FALSE, TRUE, "raised",
                                  Typed(newPass, confirmPass))
            /\ UNCHANGED <<users, modal, dbTickets, dbUsers, dbWritten>>
       ELSE LET targetEmail == IF resetType = "other" THEN email ELSE user.email
                check == ResetCheck(users, targetEmail, newPass, confirmPass)
            IN  IF check = "ok"
                THEN /\ users' = WithPassword(users, UserIndex(users, targetEmail),
                                              newPass)
                     /\ PersistReset(net, tickets, users')
                     /\ modal' = FALSE
                     /\ last' = LastUpdate("reset", TRUE, rev = "supabase",
                                           check, Typed(newPass, confirmPass))
                ELSE /\ last' = LastUpdate("reset", FALSE, FALSE, check,
                                           Typed(newPass, confirmPass))
                     /\ UNCHANGED <<users, modal, dbTickets, dbUsers, dbWritten>>
    /\ UNCHANGED <<rev, user, tickets, view, dom, local, authUser, now, screen,
                   sync, logger, submits, recoveryEmailTemp, recoveries, timers>>

\* the nav login button and the "forgot password" link under the login form
ShowForgotPassword ==
    /\ rev \in {"cloud", "supabase"}
    /\ visible' = "forgot-password"
    /\ last' = Last("nav", TRUE, FALSE)
    /\ UNCHANGED <<rev, store, btnDisabled, local, backend, now, screen, flight>>

\* the e-mail handleRecoverySubmit looks up: 'admin' stands for the admin
\* account
RecoveryTarget(email) ==
    IF ToLowerCase(email) = "admin" THEN AdminEmail ELSE email

\* handleRecoverySubmit up to its first timer; its button is disabled while
\* that timer runs
HandleRecoverySubmit(email) ==
    /\ rev \in {"cloud", "supabase"}
    /\ visible = "forgot-password"
    /\ \A i \in 1..Len(recoveries) : recoveries[i].stage # "sending"
    /\ IF UserIndex(users, RecoveryTarget(email)) > 0
       THEN /\ Len(recoveries) < MaxRecoveries
            /\ recoveries' = Append(recoveries,
                   [email |-> RecoveryTarget(email), stage |-> "sending"])
            /\ last' = LastUpdate("recovery", TRUE, FALSE, email, NULL)
       ELSE /\ last' = LastUpdate("recovery", FALSE, FALSE, email, NULL)
            /\ UNCHANGED recoveries
    /\ UNCHANGED <<rev, store, dom, local, backend, now, screen, sync, logger,
                   submits, modal, recoveryEmailTemp, timers>>

\* the timer of 1500 ms: the button is enabled again, the second timer set
RecoverySent ==
    /\ rev \in {"cloud", "supabase"}
    /\ Len(recoveries) > 0
    /\ recoveries[Len(recoveries)].stage = "sending"
    /\ recoveries' = [recoveries EXCEPT ![Len(recoveries)].stage = "sent"]
    /\ last' = Last("recoverySent", TRUE, FALSE)
    /\ UNCHANGED <<rev, store, dom, local, backend, now, screen, sync, logger,
                   submits, modal, recoveryEmailTemp, timers>>

\* the recoveryEmailTemp a reset that kept the e-mail would leave
KeptRecovery(temp) == temp

\* recoveryEmailTemp after a reset that changed the password
ClearedRecovery(temp) == NULL

\* the timer of 1000 ms: the confirm dialog of the oldest request
RecoveryConfirm(confirmed) ==
    /\ rev \in {"cloud", "supabase"}
    /\ Len(recoveries) > 0
    /\ recoveries[1].stage = "sent"
    /\ recoveries' = Tail(recoveries)
    /\ IF confirmed
       THEN /\ recoveryEmailTemp' = recoveries[1].email
            /\ visible' = "reset-password-external"
       ELSE UNCHANGED <<recoveryEmailTemp, visible>>
    /\ last' = LastUpdate("confirm", confirmed, FALSE, recoveries[1].email, NULL)
    /\ UNCHANGED <<rev, store, btnDisabled, local, backend, now, screen, sync,
                   logger, submits, modal, timers>>

\* handleExternalResetSubmit; its form is in the section
\* 'reset-password-external'
HandleExternalResetSubmit(newPass, confirmPass, net) ==
    /\ rev \in {"cloud", "supabase"}
    /\ visible = "reset-password-external"
    /\ LET check == ExternalResetCheck(users, recoveryEmailTemp, newPass,
                                       confirmPass)
       IN  /\ IF check = "ok"
              THEN /\ users' = WithPassword(users,
                                   UserIndex(users, recoveryEmailTemp), newPass)
                   /\ PersistReset(net, tickets, users')
                   /\ recoveryEmailTemp' = ClearedRecovery(recoveryEmailTemp)
              ELSE UNCHANGED <<users, recoveryEmailTemp, dbTickets, dbUsers,
                               dbWritten>>
           /\ visible' = IF check = "ok" THEN "login"
                         ELSE IF check = "expired" THEN "forgot-password"
                         ELSE visible
           /\ last' = LastUpdate("externalReset", check = "ok",
                                 check = "ok" /\ rev = "supabase", check,
                                 Typed(newPass, confirmPass))
    /\ UNCHANGED <<rev, user, tickets, view, btnDisabled, local, authUser, now,
                   screen, sync, logger, submits, modal, recoveries, timers>>

\* the account a visitor registered before, next to the admin account
StoredUsers ==
    <<FallbackAdmin, MkUser("u1", UserEmail, "abc", "user", UNDEF)>>

\* a page that has loaded its data: the accounts of the backend (cloud) or
\* the built-in list (supabase), nobody signed in
InitReset ==
    /\ rev \in {"cloud", "supabase"}
    /\ user = NoUser
    /\ tickets = << >>
    /\ users = IF rev = "cloud" THEN StoredUsers ELSE SeedUsers
    /\ view = "home"
    /\ visible = "home"
    /\ btnDisabled = FALSE
    /\ currentUser = NoItem
    /\ lsTickets = << >>
    /\ dbWritten = (rev = "cloud")
    /\ dbTickets = << >>
    /\ dbUsers = IF rev = "cloud" THEN StoredUsers ELSE <<SessionProfile>>
    /\ authUser = NULL
    /\ now = 1
    /\ last = Last("init", TRUE, FALSE)
    /\ syncStatus = "connected"
    /\ rendered = << >>
    /\ pending = << >>
    /\ refresh = Established(rev)
    /\ logs = << >>
    /\ logged = 0
    /\ submits = << >>
    /\ modal = FALSE
    /\ recoveryEmailTemp = NULL
    /\ recoveries = << >>
    /\ timers = 1

\* the reset modal next to the handlers that open and close sessions
NextReset ==
    \/ \E email \in {AdminEmail, UserEmail}, password \in {"admin", "abc", "abcd"} :
           HandleLoginCloud(email, password)
    \/ HandleLogout
    \/ HandleLoginSupabase(UserEmail, "ok", "rows")
    \/ HandleLogoutSupabase(TRUE)
    \/ HandlePasswordResetRequest
    \/ CloseResetModal
    \/ \E resetType \in {"self", "other"}, email \in ResetEmails,
          newPass \in NewPasswords, confirmPass \in NewPasswords,
          net \in NetOutcomes :
           HandleResetSubmit(resetType, email, newPass, confirmPass, net)

SpecReset == InitReset /\ [][NextReset]_vars

\* the recovery of a forgotten password, with its timers, next to the
\* navigation
NextRecovery ==
    \/ \E s \in {"login", "ticket-form"} : ShowSection(s)
    \/ ShowForgotPassword
    \/ \E email \in ResetEmails : HandleRecoverySubmit(email)
    \/ RecoverySent
    \/ \E confirmed \in BOOLEAN : RecoveryConfirm(confirmed)
    \/ \E newPass \in NewPasswords, confirmPass \in NewPasswords,
          net \in NetOutcomes :
           HandleExternalResetSubmit(newPass, confirmPass, net)

SpecRecovery == InitReset /\ [][NextRecovery]_vars

\* ------------------------------------------------------------- dashboard
\* how many tickets the dashboard of this part lists
MaxRows == 2

\* a ticket a visitor submitted, in the status an admin left it in
VisitorTicket(r, id, status) ==
    IF r = "local" THEN MkTicket(id, status, UNDEF, "Visitante")
    ELSE MkTicket(id, status, NULL, UNDEF)

\* the collections handleSubmitTicket and updateTicketStatus leave in
\* store.tickets: every id is drawn anew, so two tickets can carry one id
TicketLists(r) ==
    UNION {[1..n -> {VisitorTicket(r, id, st) : id \in TicketIds, st \in StatusOptions}]
           : n \in 0..MaxRows}

\* the admin account of the revision r
AdminAccount(r) ==
    IF r = "local" THEN LocalAccount("admin", "admin123") ELSE FallbackAdmin

\* an admin looks at the dashboard, which lists every ticket
InitDashboard ==
    /\ rev \in {"local", "cloud"}
    /\ user = AdminAccount(rev)
    /\ tickets \in TicketLists(rev)
    /\ users = IF rev = "cloud" THEN StoredUsers ELSE << >>
    /\ view = "home"
    /\ visible = "dashboard"
    /\ btnDisabled = FALSE
    /\ currentUser = SessionText(user)
    /\ lsTickets = IF rev = "local" THEN tickets ELSE << >>
    /\ dbWritten = (rev = "cloud")
    /\ dbTickets = IF rev = "cloud" THEN tickets ELSE << >>
    /\ dbUsers = users
    /\ authUser = NULL
    /\ now = 1
    /\ last = Last("init", TRUE, FALSE)
    /\ syncStatus = IF rev = "cloud" THEN "connected" ELSE StartStatus(rev)
    /\ rendered = TableRows(DisplayTickets(rev, user, tickets))
    /\ pending = << >>
    /\ refresh = Established(rev)
    /\ logs = << >>
    /\ logged = 0
    /\ submits = << >>
    /\ modal = FALSE
    /\ recoveryEmailTemp = NULL
    /\ recoveries = << >>
    /\ timers = IF rev = "local" THEN 0 ELSE 1

\* the status controls of the rows, and a call with an id no ticket has
NextDashboard ==
    \/ \E id \in TicketIds \cup {"#9999"}, st \in StatusOptions :
           UpdateTicketStatusLocal(id, st)
    \/ \E id \in TicketIds \cup {"#9999"}, st \in StatusOptions, net \in NetOutcomes :
           UpdateTicketStatusCloud(id, st, net)

SpecDashboard == InitDashboard /\ [][NextDashboard]_vars

\* ------------------------------------------------------------- ErrorLogger
\* ErrorLogger.maxLogs
maxLogs == 100

\* how many calls of ErrorLogger.log a behaviour of the logger specification makes
MaxLogged == 2

LogLevels == {"error", "warn", "info", "success"}

\* the error detail of an entry; NoDetail stands for null
NoDetail == [message |-> NULL, stack |-> NULL, name |-> NULL]
Detail == [message |-> "failed", stack |-> "at", name |-> "Error"]

\* logEntry; the timestamp is an ordinal, which grows from one call to the
\* next as the clock new Date() reads does
LogEntry(timestamp, level, message, error) ==
    [timestamp |-> timestamp, level |-> level, message |-> message,
     error |-> IF error THEN Detail ELSE NoDetail,
     userAgent |-> "agent", url |-> "href"]

\* a buffer that turns the new entry away once it is full
PushKeepOldest(entries, entry) ==
    IF Len(entries) >= maxLogs THEN entries ELSE Append(entries, entry)

\* this.logs.push(logEntry), then this.logs.shift() past maxLogs
Push(entries, entry) ==
    LET pushed == Append(entries, entry)
    IN  IF Len(pushed) > maxLogs THEN Tail(pushed) ELSE pushed

\* ErrorLogger.logs after n calls of info('m') on a fresh page, n at most
\* maxLogs
Logged(n) == [k \in 1..n |-> LogEntry(k, "info", "m", FALSE)]

\* the timestamp of the next entry
NextStamp(entries) ==
    IF Len(entries) = 0 THEN 1 ELSE entries[Len(entries)].timestamp + 1

\* ErrorLogger.log, reached through error(message, error), warn(message,
\* error), info(message) and success(message)
Log(level, message, error) ==
    /\ rev # "local"
    /\ logged < MaxLogged
    /\ logs' = Push(logs, LogEntry(NextStamp(logs), level, message, error))
    /\ logged' = logged + 1
    /\ last' = LastUpdate("log", TRUE, FALSE, level, IF error THEN "error" ELSE NULL)
    /\ UNCHANGED <<rev, store, dom, local, backend, now, screen, sync, submits,
                   reset, timers>>

NextLogger ==
    \/ \E level \in {"error", "warn"}, error \in BOOLEAN : Log(level, "m", error)
    \/ \E level \in {"info", "success"} : Log(level, "m", FALSE)

\* the logger on its own, from a buffer that is empty, one short of full, or full
InitLogger ==
    /\ rev \in {"cloud", "supabase"}
    /\ user = NoUser
    /\ tickets = << >>
    /\ users = << >>
    /\ view = "home"
    /\ visible = "home"
    /\ btnDisabled = FALSE
    /\ currentUser = NoItem
    /\ lsTickets = << >>
    /\ dbWritten = FALSE
    /\ dbTickets = << >>
    /\ dbUsers = << >>
    /\ authUser = NULL
    /\ now = 1
    /\ last = Last("init", TRUE, FALSE)
    /\ syncStatus = StartStatus(rev)
    /\ rendered = << >>
    /\ pending = << >>
    /\ refresh = Established(rev)
    /\ logs \in {Logged(n) : n \in {0, maxLogs - 1, maxLogs}}
    /\ logged = 0
    /\ submits = << >>
    /\ modal = FALSE
    /\ recoveryEmailTemp = NULL
    /\ recoveries = << >>
    /\ timers = 1

SpecLogger == InitLogger /\ [][NextLogger]_vars

\* ------------------------------------------------------------- specifications
Next ==
    \/ HandleLogout
    \/ NextLocal
    \/ NextCloud
    \/ NextSupabase

Spec == Init /\ [][Next]_vars

\* one revision at a time
InitLocal == Init /\ rev = "local"
SpecLocal == InitLocal /\ [][HandleLogout \/ NextLocal]_vars

InitCloud == Init /\ rev = "cloud"
SpecCloud == InitCloud /\ [][HandleLogout \/ NextCloud]_vars
SpecPersist == InitCloud /\ [][NextPersist]_vars

InitSupabase == Init /\ rev = "supabase"
SpecSupabase == InitSupabase /\ [][NextSupabase]_vars

\* the session handlers of the three revisions, with every e-mail and
\* password of the model and the navigation; the ticket handlers, which
\* write neither store.user nor localStorage 'currentUser' nor a role, are
\* left out
NextSession ==
    \/ \E s \in {"login", "ticket-form"} : ShowSection(s)
    \/ HandleLogout
    \/ \E username \in {"admin", "user"}, password \in {"admin123", "user123"} :
           HandleLoginLocal(username, password)
    \/ ReloadLocal
    \/ \E fetched \in BOOLEAN, net \in NetOutcomes : LoadDataCloud(fetched, net)
    \/ \E email \in Emails, password \in Passwords : HandleLoginCloud(email, password)
    \/ \E email \in Emails, password \in Passwords, net \in NetOutcomes :
           HandleSignUpSubmit(email, password, net)
    \/ ReloadCloud
    \/ \E email \in Emails, accepted \in BOOLEAN : SignUp(email, accepted)
    \/ \E fetch \in FetchOutcomes : LoadDataSupabase(fetch)
    \/ \E email \in Emails, outcome \in SignInOutcomes, fetch \in FetchOutcomes :
           HandleLoginSupabase(email, outcome, fetch)
    \/ \E signedOut \in BOOLEAN : HandleLogoutSupabase(signedOut)
    \/ \E answered \in BOOLEAN, fetch \in FetchOutcomes : ReloadSupabase(answered, fetch)

SpecSession == Init /\ [][NextSession]_vars

\* ------------------------------------------------------------- properties
\* the tickets of ts whose creator is the session u
OwnTickets(r, u, ts) ==
    LET byName(t) == t.byUser = u.username
        byId(t) == t.created_by = u.id
    IN  IF r = "local" THEN Filter(ts, byName) ELSE Filter(ts, byId)

IsOpen(t) == t.status \in {"Aberto", "open"}
IsInProgress(t) == t.status \in {"Em atendimento", "in_progress"}
IsResolved(t) == t.status \in {"Resolvido", "resolved"}

SubmitStep == last'.op = "submit" /\ last'.ok /\ vars' # vars
UpdateStep == last'.op \in {"update", "gatewayUpdate"} /\ vars' # vars
LoginStep == last'.op = "login" /\ last'.ok /\ vars' # vars
ReloadStep == last'.op = "reload" /\ vars' # vars

\* id, e-mail and role of two sessions agree
SameIdentity(u, v) == u.id = v.id /\ u.email = v.email /\ u.role = v.role

\* C1: for a session that is not admin, the dashboard lists exactly the
\* tickets whose creator is that user, none of another user and none of
\* their own left out, in every revision.
C1_DashboardListsOwnTickets ==
    (user # NoUser /\ user.role # "admin")
        => RenderDashboard(rev, user, tickets).rows = OwnTickets(rev, user, tickets)

\* C2: for an admin session the counters are: total, the number of tickets
\* held; open, the number in the open status, freshly created ones included;
\* resolved, the number in the resolved status; and total is the sum of the
\* open, in-progress and resolved tickets.
C2_AdminCountersAreCounts ==
    user.role = "admin"
        => LET stats == RenderDashboard(rev, user, tickets).stats IN
           /\ stats[1] = Len(tickets)
           /\ stats[2] = Count(tickets, IsOpen)
           /\ stats[3] = Count(tickets, IsResolved)
           /\ stats[1] = Count(tickets, IsOpen) + Count(tickets, IsInProgress)
                           + Count(tickets, IsResolved)

\* C3: a ticket submitted through the cloud or the Supabase revision carries
\* store.user's id as its creator, and a null creator exactly when store.user
\* is null, whatever logins and logouts came before.
C3_CreatorIsTheSession ==
    [][(SubmitStep /\ rev # "local")
        => LET t == IF rev = "cloud" THEN Head(tickets') ELSE Head(dbTickets')
           IN  t.created_by = (IF user = NoUser THEN NULL ELSE user.id)]_vars

\* C4: a submission that succeeds while store.user is null adds exactly one
\* ticket to store.tickets, the new one, open and with a null creator, and
\* leaves the home view showing.
C4_AnonymousSubmitAddsOneTicket ==
    [][(SubmitStep /\ rev # "local" /\ user = NoUser)
        => /\ Len(tickets') = Len(tickets) + 1
           /\ IsOpen(Head(tickets'))
           /\ Head(tickets').created_by = NULL
           /\ SubSeq(tickets', 2, Len(tickets')) = tickets
           /\ visible' = "home"]_vars

\* C5: a status update given the ticket id and status of the update applied
\* just before it, that one having been stored, leaves store.tickets and the
\* backend as they were and raises no error.
C5_SecondUpdateChangesNothing ==
    [][(/\ UpdateStep
        /\ last.op = last'.op /\ last.ok
        /\ last'.a = last.a /\ last'.b = last.b
        /\ (rev = "cloud" => (dbWritten /\ dbTickets = tickets /\ dbUsers = users)))
        => /\ tickets' = tickets
           /\ dbTickets' = dbTickets
           /\ lsTickets' = lsTickets
           /\ ~last'.raised]_vars

C8_SessionRoundTrip ==
    [][(rev \in {"local", "cloud"})
        => /\ LoginStep => SameIdentity(RestoredUser(currentUser'), user')
           /\ (ReloadStep /\ user # NoUser) => SameIdentity(user', user)]_vars

\* reached: a fresh load has restored a signed-up user's session
C8_Witness ==
    /\ rev = "cloud"
    /\ last.op = "reload"
    /\ user # NoUser /\ user.role = "user" /\ user.email = UserEmail
    /\ user.id # UNDEF

\* C9: updateTicketStatus invoked while store.user is null or not admin
\* changes no ticket, in the store or in the backend.
C9_UpdateNeedsAdmin ==
    [][(UpdateStep /\ (user = NoUser \/ user.role # "admin"))
        => /\ tickets' = tickets
           /\ dbTickets' = dbTickets
           /\ lsTickets' = lsTickets]_vars

\* the sets of three status values: the status control's and the backend's
StatusSets == {StatusOptions, {"open", "in_progress", "resolved"}}

\* C10: in every reachable state the status of every ticket, in
\* store.tickets and in the backend, belongs to one set of three values,
\* the same for creation and for updates.
C10_OneStatusSet ==
    \E S \in StatusSets :
        /\ \A i \in 1..Len(tickets) : tickets[i].status \in S
        /\ \A i \in 1..Len(dbTickets) : dbTickets[i].status \in S
        /\ \A i \in 1..Len(lsTickets) : lsTickets[i].status \in S

LogStep == last'.op = "log" /\ vars' # vars

\* C19: ErrorLogger.logs never holds more than maxLogs entries, and a call of
\* log leaves in it the latest entries in the order they were logged: the new
\* entry comes last, after the entries the buffer held, the oldest of them
\* gone when the buffer was full; each entry carries a timestamp, a level, a
\* message and an error detail that may be null
C19_LogsIsBoundedQueue ==
    /\ [](/\ Len(logs) <= maxLogs
          /\ \A i \in 1..Len(logs) :
                 /\ {"timestamp", "level", "message", "error"} \subseteq DOMAIN logs[i]
                 /\ logs[i].level \in LogLevels
                 /\ logs[i].error \in {NoDetail, Detail}
                 /\ i > 1 => logs[i - 1].timestamp < logs[i].timestamp)
    /\ [][LogStep =>
            /\ Len(logs') = IF Len(logs) < maxLogs THEN Len(logs) + 1 ELSE maxLogs
            /\ logs'[Len(logs')].level = last'.a
            /\ logs'[Len(logs')].message = "m"
            /\ logs'[Len(logs')].error = IF last'.b = "error" THEN Detail ELSE NoDetail
            /\ SubSeq(logs', 1, Len(logs') - 1) =
                   IF Len(logs) < maxLogs THEN logs ELSE Tail(logs)]_vars

\* a call of log has pushed the oldest entry out of a full buffer
C19_Witness ==
    /\ last.op = "log"
    /\ Len(logs) = maxLogs
    /\ logs[1].timestamp > 1
    /\ logs[maxLogs].error = Detail

\* a loadData whose fetch failed: fetchDB threw (cloud); with a session held,
\* the request of auth.getUser or the tickets query failed (supabase)
LoadFailedStep ==
    /\ last'.op = "load"
    /\ vars' # vars
    /\ rev = "cloud" => ~last'.ok
    /\ rev = "supabase" => authUser # NULL /\ last'.a \in {"unreachable", "failed"}

\* C11: a loadData whose fetch failed leaves the status indicator at error
\* and store.tickets as it was before the fetch
C11_FailedFetchKeepsTickets ==
    [][LoadFailedStep => syncStatus' = "error" /\ tickets' = tickets]_vars

\* the end of a loadData call that ran in steps
ResolveStep == last'.op = "load" /\ Len(pending') < Len(pending)

\* C12: loadData calls that overlap end one by one, each on its own: the
\* call that ends leaves pending and the others stay; when its fetch
\* succeeded store.tickets becomes the collection that fetch returned, whole
\* and whatever the store held, so the store holds the result of the call
\* that ended last; when its fetch failed store.tickets stays
C12_EachLoadAssignsItsResult ==
    [][ResolveStep =>
        \E i \in 1..Len(pending) :
            /\ pending[i].state = "answered"
            /\ pending' = Remove(pending, i)
            /\ tickets' = IF pending[i].result.success
                          THEN pending[i].result.tickets
                          ELSE tickets]_vars

\* a call has ended and put the backend's tickets in the store while another
\* call holds the answer a different backend state gave it: the two overlap,
\* and the store will hold the older answer when that call ends
C12_Witness ==
    /\ last.op = "load"
    /\ last.ok
    /\ tickets = dbTickets
    /\ Len(tickets) > 0
    /\ Len(pending) = 1
    /\ pending[1].state = "answered"
    /\ pending[1].result.success
    /\ pending[1].result.tickets # tickets

\* the collection the backend returns for the session: the document's
\* tickets (cloud), the rows getTickets selects for the auth session (supabase)
BackendView ==
    IF rev = "cloud" THEN dbTickets ELSE GetTickets(authUser, dbUsers, dbTickets)

\* C13: store.tickets ends up equal to the collection the backend returns
\* for the session: once the page refreshes by push only, with no loadData
\* call under way, so that no fetch follows unless the backend changes,
\* store.tickets is that collection
C13_SettledStoreIsBackendView ==
    (refresh = "push" /\ pending = << >>) => tickets = BackendView

\* C17: start-up leaves a refresh mechanism: once init has run and the
\* loadData it awaits has ended, the page polls or holds a push subscription
C17_StartUpEstablishesRefresh ==
    (refresh # "unstarted" /\ pending = << >>) => refresh \in {"polling", "push"}

\* C14: the gateway reports a write as done only when the backend took it:
\* after a handleSubmitTicket whose persistStore (cloud) or createTicket
\* (supabase) returned success the backend holds the new ticket
C14_SuccessMeansAccepted ==
    [][(SubmitStep /\ rev # "local") =>
          /\ Len(dbTickets') = Len(dbTickets) + 1
          /\ rev = "cloud" => dbWritten' /\ dbTickets' = tickets']_vars

\* the end of a handleSubmitTicket that took its success path: the step
\* that shows the home or the dashboard section
SubmitEnd ==
    \/ last'.op = "submit" /\ last'.ok /\ vars' # vars
    \/ last'.op = "load" /\ last'.a = "dashboard" /\ Len(pending') < Len(pending)

LogoutStep == last'.op = "logout" /\ vars' # vars

\* C15: the page starts on the home view; a ticket submission that
\* succeeded ends on the dashboard when a session is held and on the home
\* view when none is; a login that succeeded ends on the dashboard; a logout
\* ends on the home view
C15_ViewTransitions ==
    /\ visible = "home"
    /\ [][/\ SubmitEnd => visible' = IF user' # NoUser THEN "dashboard" ELSE "home"
          /\ LoginStep => visible' = "dashboard"
          /\ LogoutStep => visible' = "home"]_vars

\* C18: handleSubmitTicket keeps its submit control disabled exactly while
\* the call it awaits is under way: at most one submission awaits its call,
\* the control is disabled while one does, and it is enabled again once the
\* call has resolved, whether it succeeded or failed
C18_ControlDisabledWhileInFlight ==
    /\ Len(submits) <= 1
    /\ btnDisabled <=> Len(submits) = 1

\* the gateway call of a submission failed and the control is enabled again
C18_Witness ==
    /\ rev # "local"
    /\ last.op = "submit"
    /\ ~last.ok
    /\ submits = << >>
    /\ ~btnDisabled

\* C16: a login, a loadData or a status update that changes store.tickets or
\* store.user and leaves the dashboard the visible view of a session has
\* renderDashboard fill the table again: the rows shown are then the
\* role-derived view of the new store.tickets
C16_DashboardFollowsStore ==
    [][(/\ last'.op \in {"login", "load", "update"}
        /\ tickets' # tickets \/ user' # user
        /\ visible' = "dashboard"
        /\ user' # NoUser)
       => rendered' = TableRows(DisplayTickets(rev, user', tickets'))]_vars

SignUpStep == last'.op = "signup" /\ rev = "cloud" /\ vars' # vars

\* C20: in the revision that keeps its accounts in store.users no two
\* entries have e-mails handleLogin takes for the same, and a registration
\* with an e-mail handleLogin takes for a registered one is turned down and
\* leaves store.users as it was
C20_EmailIsUniqueKey ==
    /\ [](rev = "cloud" =>
             \A i, j \in 1..Len(users) :
                 ToLowerCase(users[i].email) = ToLowerCase(users[j].email) => i = j)
    /\ [][(SignUpStep /\ users' # users) =>
              \A i \in 1..Len(users) :
                  ToLowerCase(users[i].email) # ToLowerCase(users'[Len(users')].email)]_vars

\* C21: a logout clears the session: after handleLogout store.user is null
\* and neither localStorage 'currentUser' nor the gateway's auth session
\* holds it, whatever signOut returned, so that a fresh page load that
\* follows the logout restores no session
C21_LogoutClearsSession ==
    [][/\ LogoutStep =>
              user' = NoUser /\ currentUser' = NoItem /\ authUser' = NULL
       /\ (last.op = "logout" /\ ReloadStep) => user' = NoUser]_vars

ResetStep == last'.op \in {"reset", "externalReset"}

ResetErrors == {"mismatch", "short", "notfound", "same", "expired"}

\* C22: handleResetSubmit and handleExternalResetSubmit change a stored
\* password only when the new password equals its confirmation, has at
\* least three characters and the target e-mail is that of a user in
\* store.users, whose password alone then changes; in every other case a
\* validation error is reported, store.users stays as it was and nothing is
\* written to the backend
C22_ResetValidates ==
    [][ResetStep =>
          IF last'.ok
          THEN /\ last'.b = "match"
               /\ \E i \in 1..Len(users) :
                      /\ Len(users'[i].password) >= minPassword
                      /\ users' = WithPassword(users, i, users'[i].password)
          ELSE /\ last'.a \in ResetErrors
               /\ ~last'.raised
               /\ users' = users
               /\ <<dbTickets, dbUsers, dbWritten>>' = <<dbTickets, dbUsers, dbWritten>>]_vars

ExternalResetStep == last'.op = "externalReset"

\* C30: the external reset is bound to one confirmed recovery request:
\* handleExternalResetSubmit changes a password only when recoveryEmailTemp
\* is set, and then that of the user with this e-mail and nothing else, and
\* leaves recoveryEmailTemp null; recoveryEmailTemp is set only by an
\* accepted confirmation, which uses up one request, and a request is
\* under way only when handleRecoverySubmit found a user for the e-mail
\* entered
C30_ResetNeedsConfirmedRecovery ==
    [][/\ (ExternalResetStep /\ last'.ok) =>
              /\ recoveryEmailTemp # NULL
              /\ UserIndex(users, recoveryEmailTemp) > 0
              /\ users' = WithPassword(users, UserIndex(users, recoveryEmailTemp),
                              users'[UserIndex(users, recoveryEmailTemp)].password)
              /\ recoveryEmailTemp' = NULL
       /\ (ExternalResetStep /\ ~last'.ok) =>
              users' = users /\ recoveryEmailTemp' = recoveryEmailTemp
       /\ users' # users => ExternalResetStep
       /\ (recoveryEmailTemp' # recoveryEmailTemp /\ recoveryEmailTemp' # NULL) =>
              /\ last'.op = "confirm" /\ last'.ok
              /\ Len(recoveries) > 0
              /\ recoveries[1].email = recoveryEmailTemp'
              /\ recoveries' = Tail(recoveries)
       /\ Len(recoveries') > Len(recoveries) =>
              /\ last'.op = "recovery"
              /\ recoveries'[Len(recoveries')].email = RecoveryTarget(last'.a)
              /\ UserIndex(users, RecoveryTarget(last'.a)) > 0]_vars

\* a reset changed the password of the user the recovery was confirmed for
\* while a second request is still under way
C30_Witness ==
    /\ last.op = "externalReset"
    /\ last.ok
    /\ recoveryEmailTemp = NULL
    /\ Len(recoveries) > 0
    /\ \E i \in 1..Len(users) : users[i].email = UserEmail /\ users[i].password = "abcd"

\* C25: a status update made with the control of a dashboard row changes
\* the status of the ticket of that row and nothing else: the other
\* tickets, the other fields of the ticket, store.user and store.users
\* stay; with an id no ticket has, nothing changes and nothing is written.
\* The admin's table has one row per ticket of store.tickets, in order.
C25_UpdateChangesTheRowsTicket ==
    [][(/\ last'.op = "update"
        /\ user.role = "admin"
        /\ rendered = TableRows(tickets))
       => /\ user' = user
          /\ users' = users
          /\ \A k \in 1..Len(rendered) :
                 rendered[k].id = last'.a =>
                     tickets' = [tickets EXCEPT ![k].status = last'.b]
          /\ ~HasTicket(tickets, last'.a) =>
                 /\ tickets' = tickets
                 /\ <<lsTickets, dbTickets, dbUsers, dbWritten>>'
                        = <<lsTickets, dbTickets, dbUsers, dbWritten>>]_vars

\* C24: the dashboard is never the visible view while store.user is null,
\* whatever the order of logins, logouts, submissions, navigation and the
\* ends of the loadData calls they wait for
C24_DashboardNeedsSession ==
    visible = "dashboard" => user # NoUser

\* C26: a loadData that takes its error path writes nothing over the
\* backend's data: the tickets and users a backend holds are after it what
\* they were before
C26_FailedLoadKeepsBackend ==
    [][(/\ rev = "cloud"
        /\ last'.op = "load"
        /\ ~last'.ok
        /\ dbWritten)
       => /\ dbTickets' = dbTickets
          /\ dbUsers' = dbUsers]_vars

\* C29: a handleSubmitTicket whose persistStore failed leaves the Store as
\* it found it: store.tickets is what it was before the submission, the
\* rows shown and the visible view do not change
C29_FailedSubmitLeavesStore ==
    [][(/\ rev = "cloud"
        /\ last'.op = "submit"
        /\ ~last'.ok)
       => /\ tickets' = tickets
          /\ rendered' = rendered
          /\ visible' = visible]_vars

\* C28: at most one polling timer and at most one real-time subscription
\* exists at any time, however often startPolling and startRealtimeSync are
\* called, a call made while the loadData of the call before is pending
\* included
C28_OneRefreshMechanism ==
    timers <= 1

\* a callback the page scheduled runs: a tick of the interval, or the rest
\* of a loadData whose fetch has resolved
CallbackStep == last'.op \in {"tick", "load"} /\ vars' # vars

\* C23: a mutation of the Store is atomic with respect to the scheduled
\* callbacks: no tick of the interval and no resolving loadData runs while
\* a handleSubmitTicket has put its ticket in store.tickets and does not
\* know yet whether the write succeeded
C23_MutationsAreAtomic ==
    [][(rev = "cloud" /\ CallbackStep) => Len(submits) = 0]_vars

\* C27: a ticket the backend holds once its submission has ended is never
\* lost: the polling refreshes, further submissions and status updates of
\* this client, each of which posts the whole store, leave it in
\* the backend collection
C27_StoredTicketIsKept ==
    [][Len(submits) = 0 =>
          \A i \in 1..Len(dbTickets) : HasTicket(dbTickets', dbTickets[i].id)]_vars

====
